---- MODULE Spec2Model ----
(***************************************************************************)
(* Reward and streak engine of the Momentum app: the streak ledger of      *)
(* dopamine-engine.ts, the task operations of momentum-engine.ts, the      *)
(* suggestion scoring of context-engine.ts, the day rating of the recovery *)
(* engine and the zustand store of apps/mobile/store/useStore.ts.          *)
(*                                                                         *)
(* Time is counted in seconds (the code's milliseconds divided by 1000).   *)
(* A Date is the number of seconds since local midnight of day 0; every    *)
(* local day is SecondsPerDay long (a zone without daylight-saving         *)
(* shifts), and the UTC date of toISOString() is the local date.           *)
(* An optional field (a `?` field of the TypeScript interfaces) is the     *)
(* empty sequence when undefined and <<v>> when it holds v.                *)
(***************************************************************************)
EXTENDS Integers, Sequences, FiniteSets, TLC

VARIABLES
    now,        \* the wall clock read by every `new Date()`
    streak,     \* StreakSpec: the Streak value threaded through the ledger calls
    mutationsToday, \* StreakSpec: updateStreak calls of the current calendar day
                \* that changed a field other than lastActivityDate
    tasks,              \* store: Task[]
    stats,              \* store: UserStats
    streaks,            \* store: Streak[]
    achievements,       \* store: UserAchievement[]
    recentXPReward,     \* store: XPReward | null
    showCelebration,    \* store: UI flag
    celebrationMessage, \* store: UI text
    habits,             \* store: Habit[]
    call        \* the last call made: its name and its arguments

storeVars == <<tasks, stats, streaks, achievements, recentXPReward,
               showCelebration, celebrationMessage, habits>>
ledgerVars == <<streak, mutationsToday>>
vars == <<now, streak, mutationsToday, tasks, stats, streaks, achievements,
          recentXPReward, showCelebration, celebrationMessage, habits, call>>

(***************************************************************************)
(* Bounds of the model                                                     *)
(***************************************************************************)
MaxStreakDay == 9         \* last calendar day of a ledger run
MaxTasksToday == 2        \* largest tasksCompletedToday passed to updateStreak
MaxMinimum == 2           \* largest minimumForStreak passed to updateStreak
MaxShieldGrant == 2       \* largest count passed to addStreakShield
MaxShields == 3           \* addStreakShield is not called beyond this many shields
MaxStoreDay == 1          \* last calendar day of a store run
MaxTasks == 1             \* tasks the store holds at most
MaxXP == 120              \* no action takes stats.totalXP beyond this
MaxRewardHours == 18      \* hours a reward run lasts after the creation time
MaxSuggestTasks == 2      \* tasks in the list passed to getSmartSuggestions
MaxLimit == 2             \* largest limit passed to getSmartSuggestions
MaxDayTasks == 6          \* tasks in the list passed to evaluateDay
MaxRatingDay == 3         \* last calendar day of a streak analysis run
MaxUnlockDay == 3         \* last calendar day of an achievement unlocking run

(***************************************************************************)
(* Dates                                                                   *)
(***************************************************************************)
SecondsPerDay == 86400
\* the ledger's clock is read at midnight and at noon
HalfDay == SecondsPerDay \div 2

\* date.setHours(0, 0, 0, 0)
StartOfDay(date) == date - (date % SecondsPerDay)

\* the calendar day a date falls on (toDateString / toISOString().split('T')[0])
DayOf(date) == date \div SecondsPerDay

Max(a, b) == IF a >= b THEN a ELSE b
Min(a, b) == IF a <= b THEN a ELSE b

(***************************************************************************)
(* Constants of types/index.ts                                             *)
(***************************************************************************)
STREAK_SHIELD_COUNT == 1
MAX_VISIBLE_STREAK == 7

(***************************************************************************)
(* STREAK SYSTEM (dopamine-engine.ts)                                      *)
(***************************************************************************)
daysSinceActivityOf(s, t) ==
    (StartOfDay(t) - StartOfDay(s.lastActivityDate)) \div SecondsPerDay

sameDayStreak_Counts(s, qualifies, t) ==
    IF qualifies
    THEN [s EXCEPT !.currentCount = s.currentCount + 1,
                   !.longestCount = Max(s.currentCount + 1, s.longestCount),
                   !.lastActivityDate = t]
    ELSE s

\* "Same day - just update the date"
sameDayStreak(s, qualifies, t) ==
    IF qualifies THEN [s EXCEPT !.lastActivityDate = t] ELSE s

\* "Next day - extend streak"
extendedStreak(s, t) ==
    LET newCount == s.currentCount + 1
    IN  [s EXCEPT !.currentCount = newCount,
                  !.longestCount = Max(newCount, s.longestCount),
                  !.lastActivityDate = t]

shieldedStreak_OneShield(s, daysMissed, t) ==
    [s EXCEPT !.shieldsAvailable = s.shieldsAvailable - 1,
              !.shieldsUsed = s.shieldsUsed + 1,
              !.currentCount = s.currentCount + 1,
              !.longestCount = Max(s.currentCount + 1, s.longestCount),
              !.lastActivityDate = t]

shieldedStreak_ForgetUsed(s, daysMissed, t) ==
    [s EXCEPT !.shieldsAvailable = s.shieldsAvailable - daysMissed,
              !.currentCount = s.currentCount + 1,
              !.longestCount = Max(s.currentCount + 1, s.longestCount),
              !.lastActivityDate = t]

\* "Use shields to protect streak"
shieldedStreak(s, daysMissed, t) ==
    [s EXCEPT !.shieldsAvailable = s.shieldsAvailable - daysMissed,
              !.shieldsUsed = s.shieldsUsed + daysMissed,
              !.currentCount = s.currentCount + 1,
              !.longestCount = Max(s.currentCount + 1, s.longestCount),
              !.lastActivityDate = t]

resetStreak_ToZero(s, qualifies, t) ==
    [s EXCEPT !.currentCount = 0,
              !.lastActivityDate = t,
              !.startedAt = t]

resetStreak_Decrement(s, qualifies, t) ==
    [s EXCEPT !.currentCount = s.currentCount - 1,
              !.lastActivityDate = t,
              !.startedAt = t]

resetStreak_StaleDate(s, qualifies, t) ==
    [s EXCEPT !.currentCount = IF qualifies THEN 1 ELSE 0,
              !.startedAt = t]

\* "Streak broken - reset"
resetStreak(s, qualifies, t) ==
    [s EXCEPT !.currentCount = IF qualifies THEN 1 ELSE 0,
              !.lastActivityDate = t,
              !.startedAt = t]

updateStreak(s, tasksCompletedToday, minimumForStreak, t) ==
    LET daysSinceActivity == daysSinceActivityOf(s, t)
        daysMissed == daysSinceActivity - 1
        qualifies == tasksCompletedToday >= minimumForStreak
    IN  IF daysSinceActivity = 0
        THEN sameDayStreak(s, qualifies, t)
        ELSE IF daysSinceActivity = 1 /\ qualifies
        THEN extendedStreak(s, t)
        ELSE IF daysSinceActivity > 1
        THEN IF s.shieldsAvailable >= daysMissed
             THEN shieldedStreak(s, daysMissed, t)
             ELSE resetStreak(s, qualifies, t)
        ELSE s

addStreakShield(s, count) ==
    [s EXCEPT !.shieldsAvailable = s.shieldsAvailable + count]

getVisibleStreak_Uncapped(s) == s.currentCount

getVisibleStreak(s) == Min(s.currentCount, MAX_VISIBLE_STREAK)

\* the streak the store is created with (useStore.ts, initial state)
InitialStreak(t) ==
    [id |-> "main-streak", type |-> "daily",
     currentCount |-> 0, longestCount |-> 0,
     lastActivityDate |-> t,
     shieldsAvailable |-> STREAK_SHIELD_COUNT, shieldsUsed |-> 0,
     startedAt |-> t]

(***************************************************************************)
(* LEVEL SYSTEM (types/index.ts, dopamine-engine.ts)                       *)
(***************************************************************************)
LEVELS ==
    << [level |-> 1,  minXP |-> 0],
       [level |-> 2,  minXP |-> 100],
       [level |-> 3,  minXP |-> 250],
       [level |-> 4,  minXP |-> 500],
       [level |-> 5,  minXP |-> 1000],
       [level |-> 6,  minXP |-> 2000],
       [level |-> 7,  minXP |-> 4000],
       [level |-> 8,  minXP |-> 8000],
       [level |-> 9,  minXP |-> 16000],
       [level |-> 10, minXP |-> 32000] >>

\* the loop of getLevelFromXP: the last entry, from the top, with minXP <= xp
RECURSIVE levelFrom(_, _)
levelFrom(i, xp) ==
    IF i = 0 THEN LEVELS[1]
    ELSE IF xp >= LEVELS[i].minXP THEN LEVELS[i]
    ELSE levelFrom(i - 1, xp)

getLevelFromXP_Strict(xp) == levelFrom(Len(LEVELS), xp - 1)

getLevelFromXP(xp) == levelFrom(Len(LEVELS), xp)

\* getXPProgress(xp).currentLevel
getXPProgressCurrentLevel(xp) == getLevelFromXP(xp)

(***************************************************************************)
(* TASK OPERATIONS (momentum-engine.ts)                                    *)
(***************************************************************************)
TASK_DURATION_MINUTES == 25

\* Math.round(n / d) for d > 0: the nearest integer, halves upwards
RoundDiv(n, d) == (2 * n + d) \div (2 * d)

\* a || b on an optional number: b when a is undefined or 0
OrElse(opt, default) == IF opt = <<>> \/ opt = <<0>> THEN default ELSE opt[1]

calculateBaseXP(priority) ==
    CASE priority = "critical" -> 50
      [] priority = "high"     -> 25
      [] priority = "medium"   -> 15
      [] priority = "low"      -> 10
      [] priority = "someday"  -> 5

createTask(id, input, t) ==
    LET priority == IF input.priority = <<>> THEN "medium" ELSE input.priority[1]
    IN  [id |-> id,
         status |-> "pending",
         priority |-> priority,
         estimatedMinutes |-> OrElse(input.estimatedMinutes, TASK_DURATION_MINUTES),
         actualMinutes |-> <<>>,
         dueDate |-> input.dueDate,
         scheduledFor |-> <<>>,
         completedAt |-> <<>>,
         createdAt |-> t,
         energyRequired |-> OrElse(input.energyRequired, 3),
         contexts |-> IF input.contexts = <<>> THEN <<"anywhere">> ELSE input.contexts[1],
         tags |-> IF input.tags = <<>> THEN <<>> ELSE input.tags[1],
         parentTaskId |-> <<>>,
         baseXP |-> calculateBaseXP(priority)]

startTask(task) == [task EXCEPT !.status = "in_progress"]

completeTask(task, t) ==
    LET since == IF task.scheduledFor # <<>> THEN task.scheduledFor[1] ELSE task.createdAt
        actualMinutes == IF task.status = "in_progress"
                         THEN RoundDiv(t - since, 60)
                         ELSE task.estimatedMinutes
    IN  [task EXCEPT !.status = "completed",
                     !.completedAt = <<t>>,
                     !.actualMinutes = <<actualMinutes>>]

skipTask(task) == [task EXCEPT !.status = "skipped"]

deferTask(task, newDate) ==
    [task EXCEPT !.status = "deferred", !.scheduledFor = <<newDate>>]

(***************************************************************************)
(* XP SYSTEM (dopamine-engine.ts)                                          *)
(* A Math.random() draw is a number of thousandths, 0..999.                *)
(***************************************************************************)
EARLY_BIRD_BONUS == 25
NIGHT_OWL_BONUS == 25
DEADLINE_BEAT_BONUS == 15
STREAK_DAY_BONUS == 5
LOOT_DROP_CHANCE == 150
RARE_LOOT_CHANCE == 50
EPIC_LOOT_CHANCE == 10
LEGENDARY_LOOT_CHANCE == 1

\* new Date().getHours()
HourOf(t) == (t % SecondsPerDay) \div 3600

getRandomBonus(roll) ==
    IF roll < 50 THEN 50
    ELSE IF roll < 150 THEN 25
    ELSE IF roll < 300 THEN 10
    ELSE 0

\* rolls = [drop, rarity, type]: the three Math.random() draws, in thousandths
rollForLootDrop(task, userStats, rolls) ==
    LET dropChance == LOOT_DROP_CHANCE + userStats.level * 10
        shield == rolls.type < 500
    IN  IF rolls.drop > dropChance THEN <<>>
        ELSE IF rolls.rarity < LEGENDARY_LOOT_CHANCE
        THEN << [rarity |-> "legendary", taskId |-> task.id,
                 type |-> IF shield THEN "streak_shield" ELSE "xp_bonus",
                 value |-> IF shield THEN 3 ELSE 100] >>
        ELSE IF rolls.rarity < EPIC_LOOT_CHANCE
        THEN << [rarity |-> "epic", taskId |-> task.id,
                 type |-> IF shield THEN "streak_shield" ELSE "xp_bonus",
                 value |-> IF shield THEN 2 ELSE 75] >>
        ELSE IF rolls.rarity < RARE_LOOT_CHANCE
        THEN << [rarity |-> "rare", taskId |-> task.id, type |-> "xp_bonus", value |-> 50] >>
        ELSE IF rolls.rarity < 300
        THEN << [rarity |-> "uncommon", taskId |-> task.id, type |-> "xp_bonus", value |-> 25] >>
        ELSE << [rarity |-> "common", taskId |-> task.id, type |-> "xp_bonus", value |-> 10] >>

PushIf_ZeroEntry(cond, bonuses, reason, amount) ==
    Append(bonuses, [reason |-> reason, amount |-> IF cond THEN amount ELSE 0])

\* bonuses.push(...) when the condition holds
PushIf(cond, bonuses, reason, amount) ==
    IF cond THEN Append(bonuses, [reason |-> reason, amount |-> amount]) ELSE bonuses

RECURSIVE SumAmounts(_)
SumAmounts(bonuses) ==
    IF bonuses = <<>> THEN 0 ELSE Head(bonuses).amount + SumAmounts(Tail(bonuses))

\* streakArg: <<>> for null, <<streak>> otherwise; t: the clock; bonusRoll and
\* lootRolls: the Math.random() draws
calculateTaskXP(task, userStats, streakArg, t, bonusRoll, lootRolls) ==
    LET base == task.baseXP
        hour == HourOf(t)
        b1 == PushIf(hour < 9 /\ hour >= 5, <<>>, "Early bird!", EARLY_BIRD_BONUS)
        b2 == PushIf(hour >= 22 \/ hour < 5, b1, "Night owl!", NIGHT_OWL_BONUS)
        b3 == PushIf(/\ task.dueDate # <<>> /\ task.completedAt # <<>>
                     /\ task.dueDate[1] - task.completedAt[1] > 24 * 3600,
                     b2, "Ahead of schedule!", DEADLINE_BEAT_BONUS)
        b4 == IF streakArg # <<>> /\ streakArg[1].currentCount > 0
              THEN Append(b3, [reason |-> "day streak!",
                               amount |-> Min(streakArg[1].currentCount, 7) * STREAK_DAY_BONUS])
              ELSE b3
        b5 == PushIf(task.priority = "critical", b4, "Critical task done!", 10)
        b6 == PushIf(/\ task.actualMinutes # <<>> /\ task.actualMinutes # <<0>>
                     /\ task.estimatedMinutes # 0
                     /\ task.actualMinutes[1] < task.estimatedMinutes,
                     b5, "Speed bonus!", 5)
        randomBonus == getRandomBonus(bonusRoll)
        bonuses == PushIf(randomBonus > 0, b6, "Lucky bonus!", randomBonus)
        total == base + SumAmounts(bonuses)
        currentLevel == getLevelFromXP(userStats.totalXP)
        newLevel == getLevelFromXP(userStats.totalXP + total)
    IN  [base |-> base,
         bonuses |-> bonuses,
         total |-> total,
         triggeredLootDrop |-> rollForLootDrop(task, userStats, lootRolls),
         levelUp |-> IF newLevel.level > currentLevel.level
                     THEN << [from |-> currentLevel.level, to |-> newLevel.level] >>
                     ELSE <<>>]

(***************************************************************************)
(* SMART SUGGESTION ENGINE (context-engine.ts)                             *)
(* A context is [energyLevel, availableMinutes, location, mood: optional,  *)
(* timeOfDay]; the reasons of a suggestion are not modelled.               *)
(***************************************************************************)
Abs(n) == IF n < 0 THEN -n ELSE n

\* an optional number that is neither undefined nor 0
Truthy(opt) == opt # <<>> /\ opt # <<0>>

priorityScore_Raised(priority) ==
    CASE priority = "critical" -> 50
      [] OTHER -> 20

\* "Priority score (0-40)"
priorityScore(priority) ==
    CASE priority = "critical" -> 40
      [] priority = "high"     -> 30
      [] priority = "medium"   -> 20
      [] priority = "low"      -> 10
      [] priority = "someday"  -> 5

\* "Energy match (0-25)"
energyMatchScore(task, context) ==
    IF ~Truthy(context.energyLevel) THEN 0
    ELSE LET diff == Abs(task.energyRequired - context.energyLevel[1])
         IN  IF diff = 0 THEN 25
             ELSE IF diff = 1 THEN 20
             ELSE Max(0, 25 - diff * 5)

\* "Time fit (0-20)": estimatedMinutes <= availableMinutes * 1.5 in halves
timeFitScore(task, context) ==
    IF ~Truthy(context.availableMinutes) THEN 0
    ELSE IF task.estimatedMinutes <= context.availableMinutes[1] THEN 20
    ELSE IF 2 * task.estimatedMinutes <= 3 * context.availableMinutes[1] THEN 10
    ELSE 0

locationContexts(location) ==
    CASE location = "home"    -> {"home", "anywhere"}
      [] location = "work"    -> {"work", "anywhere"}
      [] location = "transit" -> {"phone", "anywhere"}
      [] location = "errand"  -> {"errand", "anywhere"}
      [] location = "other"   -> {"anywhere"}
      [] OTHER -> {}

\* "Location match (0-15)"
locationScore(task, context) ==
    IF context.location = <<>> THEN 0
    ELSE IF \E i \in DOMAIN task.contexts :
                task.contexts[i] \in locationContexts(context.location[1])
    THEN 15 ELSE 0

\* tags.some(t => set.includes(t))
HasTag(task, set) == \E i \in DOMAIN task.tags : task.tags[i] \in set

checkMoodMatch(task, mood) ==
    CASE mood = "focused"   -> task.estimatedMinutes >= 25 \/ task.energyRequired >= 4
      [] mood = "scattered" -> task.estimatedMinutes <= 10
      [] mood = "creative"  -> HasTag(task, {"creative", "brainstorm", "writing", "design"})
      [] mood = "tired"     -> task.energyRequired <= 2 /\ task.estimatedMinutes <= 10
      [] mood = "anxious"   -> task.estimatedMinutes <= 15 /\ ~HasTag(task, {"creative"})
      [] mood = "motivated" -> task.priority = "critical" \/ task.priority = "high"
      [] OTHER -> FALSE

\* "Mood match (0-15)"
moodScore(task, context) ==
    IF context.mood # <<>> /\ checkMoodMatch(task, context.mood[1]) THEN 15 ELSE 0

\* TRUE when checkTimeOfDayMatch returns a reason, FALSE when it returns null
checkTimeOfDayMatch(task, timeOfDay) ==
    CASE timeOfDay = "morning" ->
            \/ task.priority = "critical" \/ task.priority = "high"
            \/ task.energyRequired >= 4
      [] timeOfDay = "afternoon" -> task.energyRequired >= 2 /\ task.energyRequired <= 4
      [] timeOfDay = "evening" -> task.energyRequired <= 3
      [] timeOfDay = "night" -> task.energyRequired <= 2
      [] OTHER -> FALSE

\* "Time of day match (0-10)"
timeOfDayScore(task, context) ==
    IF checkTimeOfDayMatch(task, context.timeOfDay) THEN 10 ELSE 0

\* "Due date urgency (0-30 bonus)": hoursUntil compared in seconds
dueDateUrgency(task, t) ==
    IF task.dueDate = <<>> THEN 0
    ELSE LET secondsUntil == task.dueDate[1] - t
         IN  IF secondsUntil < 0 THEN 30
             ELSE IF secondsUntil < 24 * 3600 THEN 25
             ELSE IF secondsUntil < 72 * 3600 THEN 15
             ELSE 0

\* "Quick win bonus"
quickWinScore(task) == IF task.estimatedMinutes <= 5 THEN 10 ELSE 0

\* the score the map callback of getSmartSuggestions accumulates
suggestionScore(task, context, t) ==
    priorityScore(task.priority) + energyMatchScore(task, context)
    + timeFitScore(task, context) + locationScore(task, context)
    + moodScore(task, context) + timeOfDayScore(task, context)
    + dueDateUrgency(task, t) + quickWinScore(task)

insertByScore_Front(sorted, e) == <<e>> \o sorted

\* Array.prototype.sort((a, b) => b.score - a.score) is stable: an entry goes
\* behind every entry that scores at least as much
RECURSIVE insertByScore(_, _)
insertByScore(sorted, e) ==
    IF sorted = <<>> THEN <<e>>
    ELSE IF Head(sorted).score >= e.score
    THEN <<Head(sorted)>> \o insertByScore(Tail(sorted), e)
    ELSE <<e>> \o sorted

RECURSIVE sortByScore(_)
sortByScore(scored) ==
    IF scored = <<>> THEN <<>>
    ELSE insertByScore(sortByScore(SubSeq(scored, 1, Len(scored) - 1)),
                       scored[Len(scored)])

\* limit >= 0
getSmartSuggestions(taskList, context, limit, t) ==
    LET pending == SelectSeq(taskList, LAMBDA task : task.status = "pending")
        scored == [i \in DOMAIN pending |->
                      [taskId |-> pending[i].id,
                       score |-> suggestionScore(pending[i], context, t)]]
        sorted == sortByScore(scored)
    IN  SubSeq(sorted, 1, Min(limit, Len(sorted)))

(***************************************************************************)
(* DAY RATING SYSTEM (recovery engine)                                     *)
(***************************************************************************)
rateAtLeast_NoZeroGuard(tasksCompleted, tasksPlanned, tenths) ==
    10 * tasksCompleted >= tenths * tasksPlanned

\* completionRate >= tenths / 10, where completionRate is
\* tasksCompleted / tasksPlanned when tasksPlanned > 0 and 0 otherwise
rateAtLeast(tasksCompleted, tasksPlanned, tenths) ==
    IF tasksPlanned > 0
    THEN 10 * tasksCompleted >= tenths * tasksPlanned
    ELSE 0 >= tenths

RECURSIVE SumBaseXP(_)
SumBaseXP(taskList) ==
    IF taskList = <<>> THEN 0 ELSE Head(taskList).baseXP + SumBaseXP(Tail(taskList))

\* minimumViableDay: <<>> for null, <<[taskIds |-> a sequence of ids]>> otherwise;
\* the result's message is not modelled, completionRate is kept as a fraction
evaluateDay(taskList, minimumViableDay, date) ==
    LET dayTasks == SelectSeq(taskList, LAMBDA task :
                        LET taskDate == IF task.scheduledFor # <<>>
                                        THEN task.scheduledFor[1] ELSE task.createdAt
                        IN  /\ taskDate >= StartOfDay(date)
                            /\ taskDate <= StartOfDay(date) + SecondsPerDay - 1)
        completed == SelectSeq(dayTasks, LAMBDA task : task.status = "completed")
        planned == SelectSeq(dayTasks, LAMBDA task : task.status # "skipped")
        tasksCompleted == Len(completed)
        tasksPlanned == Len(planned)
        mvdAchieved ==
            IF minimumViableDay # <<>>
            THEN \E k \in DOMAIN minimumViableDay[1].taskIds :
                    \E i \in DOMAIN completed :
                        \/ completed[i].id = minimumViableDay[1].taskIds[k]
                        \/ completed[i].parentTaskId = <<minimumViableDay[1].taskIds[k]>>
            ELSE tasksCompleted > 0
        type == IF rateAtLeast(tasksCompleted, tasksPlanned, 9) /\ tasksPlanned >= 3
                THEN "perfect"
                ELSE IF rateAtLeast(tasksCompleted, tasksPlanned, 7) THEN "good"
                ELSE IF rateAtLeast(tasksCompleted, tasksPlanned, 4) \/ tasksCompleted >= 2
                THEN "okay"
                ELSE IF mvdAchieved \/ tasksCompleted >= 1 THEN "minimum_viable"
                ELSE "zero"
    IN  [type |-> type,
         tasksCompleted |-> tasksCompleted,
         tasksPlanned |-> tasksPlanned,
         completionRate |-> IF tasksPlanned > 0
                            THEN [num |-> tasksCompleted, den |-> tasksPlanned]
                            ELSE [num |-> 0, den |-> 1],
         mvdAchieved |-> mvdAchieved,
         xpEarned |-> SumBaseXP(completed)]

(***************************************************************************)
(* STREAK ANALYSIS (recovery engine)                                       *)
(* A DayRating is [date, type]; the recovery message is not modelled.      *)
(***************************************************************************)
\* [...dayRatings].sort((a, b) => b.date - a.date), a stable sort
RECURSIVE insertByDate(_, _)
insertByDate(sorted, rating) ==
    IF sorted = <<>> THEN <<rating>>
    ELSE IF Head(sorted).date >= rating.date
    THEN <<Head(sorted)>> \o insertByDate(Tail(sorted), rating)
    ELSE <<rating>> \o sorted

RECURSIVE sortByDate(_)
sortByDate(dayRatings) ==
    IF dayRatings = <<>> THEN <<>>
    ELSE insertByDate(sortByDate(SubSeq(dayRatings, 1, Len(dayRatings) - 1)),
                      dayRatings[Len(dayRatings)])

\* differenceInDays(startOfDay(a), startOfDay(b))
differenceInDays(a, b) == (StartOfDay(a) - StartOfDay(b)) \div SecondsPerDay

\* the for loop of analyzeStreak from entry i of sorted on
RECURSIVE countStreak(_, _, _, _)
countStreak(sorted, i, previousDate, count) ==
    IF i > Len(sorted) THEN count
    ELSE IF differenceInDays(previousDate, sorted[i].date) > 1 /\ sorted[i].type = "zero"
    THEN count
    ELSE countStreak(sorted, i + 1, sorted[i].date,
                     IF sorted[i].type # "zero" THEN count + 1 ELSE count)

canRecoverWith_AnyShield(daysSince, streakShieldsAvailable) ==
    daysSince > 1 /\ streakShieldsAvailable >= 1

\* isStreakBroken && streakShieldsAvailable >= (daysSince - 1)
canRecoverWith(daysSince, streakShieldsAvailable) ==
    daysSince > 1 /\ streakShieldsAvailable >= daysSince - 1

analyzeStreak(dayRatings, streakShieldsAvailable, t) ==
    IF Len(dayRatings) = 0
    THEN [currentStreak |-> 0, daysSinceLastActivity |-> 0,
          isStreakBroken |-> FALSE, canRecover |-> TRUE]
    ELSE LET sorted == sortByDate(dayRatings)
             daysSince == differenceInDays(t, sorted[1].date)
             count == countStreak(sorted, 1, t, 0)
             isStreakBroken == daysSince > 1
             canRecover == canRecoverWith(daysSince, streakShieldsAvailable)
         IN  [currentStreak |-> IF isStreakBroken /\ ~canRecover THEN 0 ELSE count,
              daysSinceLastActivity |-> daysSince,
              isStreakBroken |-> isStreakBroken,
              canRecover |-> canRecover]

(***************************************************************************)
(* ACHIEVEMENTS (dopamine-engine.ts)                                       *)
(***************************************************************************)
Ach(id, xpReward, type, threshold) ==
    [id |-> id, xpReward |-> xpReward, type |-> type, threshold |-> threshold]

ACHIEVEMENTS ==
    << Ach("first_task", 25, "tasks_completed", 1),
       Ach("ten_tasks", 50, "tasks_completed", 10),
       Ach("hundred_tasks", 200, "tasks_completed", 100),
       Ach("thousand_tasks", 1000, "tasks_completed", 1000),
       Ach("streak_3", 30, "streak", 3),
       Ach("streak_7", 100, "streak", 7),
       Ach("streak_30", 500, "streak", 30),
       Ach("streak_100", 2000, "streak", 100),
       Ach("bounce_back", 50, "recovery", 1),
       Ach("phoenix", 150, "recovery", 5),
       Ach("resilient", 500, "recovery", 20),
       Ach("early_bird", 75, "early_bird", 10),
       Ach("night_owl", 75, "night_owl", 10),
       Ach("chain_starter", 40, "chains_completed", 1),
       Ach("chain_master", 300, "chains_completed", 50),
       Ach("perfect_day", 100, "perfect_days", 1),
       Ach("perfect_week", 500, "perfect_days", 7) >>

checkAchievementCondition(achievement, userStats) ==
    CASE achievement.type = "tasks_completed" -> userStats.totalTasksCompleted >= achievement.threshold
      [] achievement.type = "streak" -> userStats.longestStreak >= achievement.threshold
      [] achievement.type = "chains_completed" -> userStats.totalMomentumChains >= achievement.threshold
      [] achievement.type = "perfect_days" -> userStats.perfectDays >= achievement.threshold
      [] achievement.type = "xp_earned" -> userStats.totalXP >= achievement.threshold
      [] OTHER -> FALSE

checkForNewAchievements_IgnoreExisting(userStats, existingAchievements) ==
    SelectSeq(ACHIEVEMENTS, LAMBDA a : checkAchievementCondition(a, userStats))

checkForNewAchievements(userStats, existingAchievements) ==
    LET unlockedIds == {existingAchievements[i].achievementId :
                            i \in DOMAIN existingAchievements}
    IN  SelectSeq(ACHIEVEMENTS,
                  LAMBDA a : a.id \notin unlockedIds /\ checkAchievementCondition(a, userStats))

createUserAchievement(achievement, t) ==
    [achievementId |-> achievement.id, unlockedAt |-> t, celebrated |-> FALSE]

RECURSIVE SumXPReward(_)
SumXPReward(as) ==
    IF as = <<>> THEN 0 ELSE Head(as).xpReward + SumXPReward(Tail(as))

(***************************************************************************)
(* Initial state: the store has just been created                          *)
(***************************************************************************)
NoCall == [op |-> "none"]

\* the store is created at noon of day 0
CreationTime == HalfDay

defaultStats ==
    [totalXP |-> 0, level |-> 1, currentStreak |-> 0, longestStreak |-> 0,
     totalTasksCompleted |-> 0, totalMomentumChains |-> 0, perfectDays |-> 0,
     goodEnoughDays |-> 0, zeroDays |-> 0]

Habit(id, frequency, xpPerCompletion) ==
    [id |-> id, frequency |-> frequency, currentStreak |-> 0, longestStreak |-> 0,
     completedToday |-> FALSE, completedDates |-> <<>>,
     xpPerCompletion |-> xpPerCompletion]

InitialHabits ==
    << Habit("1", "daily", 15), Habit("2", "weekdays", 25),
       Habit("3", "weekdays", 20), Habit("4", "weekends", 20) >>

Init ==
    /\ now = CreationTime
    /\ streak = InitialStreak(now)
    /\ mutationsToday = 0
    /\ tasks = <<>>
    /\ stats = defaultStats
    /\ streaks = << InitialStreak(now) >>
    /\ achievements = <<>>
    /\ recentXPReward = <<>>
    /\ showCelebration = FALSE
    /\ celebrationMessage = <<>>
    /\ habits = InitialHabits
    /\ call = NoCall

(***************************************************************************)
(* StreakSpec: the ledger called directly, with any arguments              *)
(***************************************************************************)
\* the fields of a streak other than lastActivityDate that a ledger call can set
LedgerFields(s) ==
    <<s.currentCount, s.longestCount, s.shieldsAvailable, s.shieldsUsed, s.startedAt>>

StreakTick ==
    /\ DayOf(now + HalfDay) <= MaxStreakDay
    /\ now' = now + HalfDay
    /\ mutationsToday' = IF DayOf(now + HalfDay) = DayOf(now) THEN mutationsToday ELSE 0
    /\ call' = NoCall
    /\ UNCHANGED <<streak, storeVars>>

UpdateStreakCall ==
    \E tasksCompletedToday \in 0..MaxTasksToday, minimumForStreak \in 1..MaxMinimum :
        /\ streak' = updateStreak(streak, tasksCompletedToday, minimumForStreak, now)
        /\ call' = [op |-> "updateStreak", streak |-> streak,
                    tasksCompletedToday |-> tasksCompletedToday,
                    minimumForStreak |-> minimumForStreak]
        /\ mutationsToday' = IF LedgerFields(streak') = LedgerFields(streak)
                             THEN mutationsToday ELSE mutationsToday + 1
        /\ UNCHANGED <<now, storeVars>>

AddStreakShieldCall ==
    \E count \in 0..MaxShieldGrant :
        /\ streak.shieldsAvailable + count <= MaxShields
        /\ streak' = addStreakShield(streak, count)
        /\ call' = [op |-> "addStreakShield", streak |-> streak, count |-> count]
        /\ UNCHANGED <<now, mutationsToday, storeVars>>

GetVisibleStreakCall ==
    /\ call' = [op |-> "getVisibleStreak", streak |-> streak,
                result |-> getVisibleStreak(streak)]
    /\ UNCHANGED <<now, streak, mutationsToday, storeVars>>

StreakNext ==
    \/ StreakTick
    \/ UpdateStreakCall
    \/ AddStreakShieldCall
    \/ GetVisibleStreakCall

StreakSpec == Init /\ [][StreakNext]_vars

(***************************************************************************)
(* StoredStreakSpec: updateStreak called on a streak record read from      *)
(* storage, whose lastActivityDate may lie before or after the clock       *)
(***************************************************************************)
\* days between the clock and the lastActivityDate of the record
StoredDayOffsets == {-2, -1, 0, 1, 2}

\* the records: started and last active at the same time, with a count
StoredStreaks(t) ==
    { [InitialStreak(t + o * SecondsPerDay) EXCEPT !.currentCount = c,
                                                  !.longestCount = c,
                                                  !.shieldsAvailable = sh] :
        o \in {o \in StoredDayOffsets : t + o * SecondsPerDay >= 0},
        c \in {0, 5}, sh \in {0, 1} }

\* updateStreak has no throw statement: every call returns a Streak
UpdateStoredStreakCall ==
    \E s \in StoredStreaks(now), tasksCompletedToday \in 0..1 :
        /\ streak' = updateStreak(s, tasksCompletedToday, 1, now)
        /\ call' = [op |-> "updateStreak", streak |-> s,
                    tasksCompletedToday |-> tasksCompletedToday,
                    minimumForStreak |-> 1,
                    outcome |-> "returned"]
        /\ UNCHANGED <<now, mutationsToday, storeVars>>

StoredStreakNext == StreakTick \/ UpdateStoredStreakCall

StoredStreakSpec == Init /\ [][StoredStreakNext]_vars

(***************************************************************************)
(* Spec: the store (useStore.ts) driven by its actions                     *)
(***************************************************************************)
\* the inputs addTask is called with
TaskInputs ==
    { [priority |-> <<>>, estimatedMinutes |-> <<>>, dueDate |-> <<>>,
       energyRequired |-> <<>>, contexts |-> <<>>, tags |-> <<>>] }

\* the habit ids toggleHabit is called with ("0" is no habit's id)
HabitIds == {"2", "0"}

\* the amounts addXP is called with
XPAmounts == {10, 85}

\* the achievement ids celebrateAchievement is called with
CelebratedIds == {"first_task"}

\* the Math.random() draws of one completion
BonusRolls == {0, 999}
LootRolls ==
    { [drop |-> 999, rarity |-> 999, type |-> 999],
      [drop |-> 0, rarity |-> 0, type |-> 0],
      [drop |-> 0, rarity |-> 999, type |-> 999] }

\* tasks.find(t => t.id === taskId): the index of the task, 0 when there is none
FindTask(taskId) ==
    IF \E i \in DOMAIN tasks : tasks[i].id = taskId
    THEN CHOOSE i \in DOMAIN tasks :
            /\ tasks[i].id = taskId
            /\ \A j \in DOMAIN tasks : tasks[j].id = taskId => i <= j
    ELSE 0

FindDaily(ss) ==
    IF \E i \in DOMAIN ss : ss[i].type = "daily"
    THEN CHOOSE i \in DOMAIN ss :
            /\ ss[i].type = "daily"
            /\ \A j \in DOMAIN ss : ss[j].type = "daily" => i <= j
    ELSE 0

FindHabit(habitId) ==
    IF \E i \in DOMAIN habits : habits[i].id = habitId
    THEN CHOOSE i \in DOMAIN habits :
            /\ habits[i].id = habitId
            /\ \A j \in DOMAIN habits : habits[j].id = habitId => i <= j
    ELSE 0

StoreTick ==
    /\ DayOf(now + SecondsPerDay) <= MaxStoreDay
    /\ now' = now + SecondsPerDay
    /\ UNCHANGED <<storeVars, ledgerVars, call>>

addTask ==
    \E input \in TaskInputs :
        /\ Len(tasks) < MaxTasks
        /\ tasks' = Append(tasks, createTask(Len(tasks) + 1, input, now))
        /\ UNCHANGED <<now, ledgerVars, call, stats, streaks, achievements, recentXPReward,
                       showCelebration, celebrationMessage, habits>>

startTaskAction ==
    \E taskId \in 1..MaxTasks :
        /\ tasks' = [i \in DOMAIN tasks |->
                        IF tasks[i].id = taskId THEN startTask(tasks[i]) ELSE tasks[i]]
        /\ UNCHANGED <<now, ledgerVars, call, stats, streaks, achievements, recentXPReward,
                       showCelebration, celebrationMessage, habits>>

completeTaskAction ==
    \E taskId \in 1..MaxTasks, bonusRoll \in BonusRolls, lootRolls \in LootRolls :
        /\ UNCHANGED <<now, ledgerVars, call, habits>>
        /\ IF FindTask(taskId) = 0
           THEN UNCHANGED <<tasks, stats, streaks, achievements, recentXPReward,
                            showCelebration, celebrationMessage>>
           ELSE
            \E completedTask \in {completeTask(tasks[FindTask(taskId)], now)},
               daily \in {FindDaily(streaks)} :
            \E xpReward \in {calculateTaskXP(completedTask, stats,
                                IF daily = 0 THEN <<>> ELSE <<streaks[daily]>>,
                                now, bonusRoll, lootRolls)} :
            \E stats1 \in {[stats EXCEPT
                              !.totalXP = stats.totalXP + xpReward.total,
                              !.totalTasksCompleted = stats.totalTasksCompleted + 1]} :
            \E newAchievements \in {checkForNewAchievements(stats1, achievements)} :
            \E stats2 \in {[stats1 EXCEPT
                              !.totalXP = stats1.totalXP + SumXPReward(newAchievements)]} :
            \E stats3 \in {[stats2 EXCEPT
                              !.level = getXPProgressCurrentLevel(stats2.totalXP).level]} :
            \E todayTasks \in {SelectSeq(tasks, LAMBDA t :
                                  /\ t.status = "completed"
                                  /\ t.completedAt # <<>>
                                  /\ DayOf(t.completedAt[1]) = DayOf(now))} :
            \E updatedStreak \in {IF daily = 0 THEN <<>>
                                  ELSE updateStreak(streaks[daily], Len(todayTasks) + 1, 1, now)} :
            \E newStats \in {IF daily = 0 THEN stats3
                             ELSE [stats3 EXCEPT
                                     !.currentStreak = updatedStreak.currentCount,
                                     !.longestStreak = Max(stats3.longestStreak,
                                                           updatedStreak.longestCount)]} :
                /\ newStats.totalXP <= MaxXP
                /\ tasks' = [i \in DOMAIN tasks |->
                                IF tasks[i].id = taskId THEN completedTask ELSE tasks[i]]
                /\ stats' = newStats
                /\ streaks' = IF daily = 0 THEN streaks
                              ELSE [i \in DOMAIN streaks |->
                                      IF streaks[i].id = streaks[daily].id
                                      THEN updatedStreak ELSE streaks[i]]
                /\ achievements' = achievements \o
                      [i \in DOMAIN newAchievements |->
                          createUserAchievement(newAchievements[i], now)]
                /\ recentXPReward' = <<xpReward>>
                /\ showCelebration' = \/ xpReward.levelUp # <<>>
                                      \/ Len(newAchievements) > 0
                                      \/ xpReward.total >= 50
                /\ celebrationMessage' =
                      IF xpReward.levelUp # <<>>
                      THEN <<"Level Up!", xpReward.levelUp[1].to>>
                      ELSE IF Len(newAchievements) > 0
                      THEN <<"Achievement Unlocked", newAchievements[1].id>>
                      ELSE IF xpReward.total >= 50
                      THEN <<"XP", xpReward.total>>
                      ELSE <<>>

storeSkipTask ==
    \E taskId \in 1..MaxTasks :
        /\ tasks' = [i \in DOMAIN tasks |->
                        IF tasks[i].id = taskId
                        THEN [tasks[i] EXCEPT !.status = "skipped"] ELSE tasks[i]]
        /\ UNCHANGED <<now, ledgerVars, call, stats, streaks, achievements, recentXPReward,
                       showCelebration, celebrationMessage, habits>>

addXP ==
    \E amount \in XPAmounts :
        LET newTotalXP == stats.totalXP + amount
            currentLevel == getXPProgressCurrentLevel(newTotalXP)
            leveledUp == currentLevel.level > stats.level
        IN  /\ newTotalXP <= MaxXP
            /\ stats' = [stats EXCEPT !.totalXP = newTotalXP,
                                      !.level = currentLevel.level]
            /\ showCelebration' = leveledUp
            /\ celebrationMessage' =
                  IF leveledUp THEN <<"Level Up!", currentLevel.level>> ELSE <<>>
            /\ UNCHANGED <<now, ledgerVars, call, tasks, streaks, achievements,
                           recentXPReward, habits>>

celebrateAchievement ==
    \E achievementId \in CelebratedIds :
        /\ achievements' = [i \in DOMAIN achievements |->
                IF achievements[i].achievementId = achievementId
                THEN [achievements[i] EXCEPT !.celebrated = TRUE]
                ELSE achievements[i]]
        /\ UNCHANGED <<now, ledgerVars, call, tasks, stats, streaks, recentXPReward,
                       showCelebration, celebrationMessage, habits>>

\* completedDates.filter(d => d !== today)
WithoutDate(dates, today) == SelectSeq(dates, LAMBDA d : d # today)

toggleHabit ==
    \E habitId \in HabitIds :
        /\ UNCHANGED <<now, ledgerVars, call, tasks, streaks, achievements, recentXPReward,
                       showCelebration, celebrationMessage>>
        /\ IF FindHabit(habitId) = 0
           THEN UNCHANGED <<habits, stats>>
           ELSE
            LET habit == habits[FindHabit(habitId)]
                today == DayOf(now)
                wasCompleted == habit.completedToday
                newTotalXP == stats.totalXP + habit.xpPerCompletion
            IN  IF ~wasCompleted
                THEN /\ newTotalXP <= MaxXP
                     /\ habits' = [i \in DOMAIN habits |->
                            IF habits[i].id = habitId
                            THEN [habits[i] EXCEPT
                                    !.completedToday = TRUE,
                                    !.currentStreak = habits[i].currentStreak + 1,
                                    !.longestStreak = Max(habits[i].longestStreak,
                                                          habits[i].currentStreak + 1),
                                    !.completedDates = Append(habits[i].completedDates, today)]
                            ELSE habits[i]]
                     /\ stats' = [stats EXCEPT
                            !.totalXP = newTotalXP,
                            !.level = getXPProgressCurrentLevel(newTotalXP).level]
                ELSE /\ habits' = [i \in DOMAIN habits |->
                            IF habits[i].id = habitId
                            THEN [habits[i] EXCEPT
                                    !.completedToday = FALSE,
                                    !.currentStreak = Max(0, habits[i].currentStreak - 1),
                                    !.completedDates = WithoutDate(habits[i].completedDates, today)]
                            ELSE habits[i]]
                     /\ stats' = [stats EXCEPT
                            !.totalXP = Max(0, stats.totalXP - habit.xpPerCompletion)]

\* Spec: the task lifecycle, with the streak and the achievements it feeds
Next ==
    \/ StoreTick
    \/ addTask
    \/ startTaskAction
    \/ completeTaskAction
    \/ storeSkipTask
    \/ celebrateAchievement

Spec == Init /\ [][Next]_vars

\* XPSpec: the actions of one day that change stats.totalXP
\* The achievement part of the store: tasks are captured and completed over
\* several days, and unlocked achievements are celebrated.
UnlockTick ==
    /\ DayOf(now + SecondsPerDay) <= MaxUnlockDay
    /\ now' = now + SecondsPerDay
    /\ UNCHANGED <<storeVars, ledgerVars, call>>

UnlockNext ==
    \/ UnlockTick
    \/ addTask
    \/ completeTaskAction
    \/ celebrateAchievement

UnlockSpec == Init /\ [][UnlockNext]_vars

XPNext ==
    \/ addTask
    \/ completeTaskAction
    \/ addXP
    \/ toggleHabit

XPSpec == Init /\ [][XPNext]_vars

(***************************************************************************)
(* RewardSpec: calculateTaskXP called on tasks made by the task operations *)
(***************************************************************************)
\* the clock of a reward run moves in steps of six hours
RewardStep == 6 * 3600

RewardTick ==
    /\ now + RewardStep <= CreationTime + MaxRewardHours * 3600
    /\ now' = now + RewardStep
    /\ call' = NoCall
    /\ UNCHANGED <<ledgerVars, storeVars>>

\* the inputs the task is created with: the due date is two days after creation
RewardTaskInputs(createdAt) ==
    { [priority |-> p, estimatedMinutes |-> <<>>, dueDate |-> d,
       energyRequired |-> <<>>, contexts |-> <<>>, tags |-> <<>>] :
        p \in {<<>>, <<"critical">>},
        d \in {<<>>, <<createdAt + 2 * SecondsPerDay>>} }

\* seconds between startTask and completeTask
ElapsedSeconds == {20, 120, 1800}

\* the tasks calculateTaskXP is called on at time t: one that was only created,
\* one completed from pending, and one started and completed after each delay
RewardTasks(t) ==
    UNION { { createTask(1, input, t - 1800),
              completeTask(createTask(1, input, t - 1800), t) } :
            input \in RewardTaskInputs(t - 1800) }
    \cup
    UNION { { completeTask(startTask(createTask(1, input, t - elapsed)), t) :
              input \in RewardTaskInputs(t - elapsed) } :
            elapsed \in ElapsedSeconds }

\* stats.totalXP of the caller
RewardXPs == {0, 90, 100}

StatsWithXP(xp) ==
    [defaultStats EXCEPT !.totalXP = xp, !.level = getLevelFromXP(xp).level]

\* the streak argument: null, or the daily streak with a count
RewardStreakArgs ==
    {<<>>} \cup { <<[InitialStreak(CreationTime) EXCEPT !.currentCount = c,
                                                        !.longestCount = c]>> :
                    c \in {0, 8} }

\* the Math.random() draws of the call: a random win or none, and no loot
RewardBonusRolls == {0, 999}
RewardLootRolls == [drop |-> 999, rarity |-> 999, type |-> 999]

CalculateTaskXPCall ==
    \E task \in RewardTasks(now), xp \in RewardXPs,
       streakArg \in RewardStreakArgs, bonusRoll \in RewardBonusRolls :
        /\ call' = [op |-> "calculateTaskXP", task |-> task,
                    userStats |-> StatsWithXP(xp), streakArg |-> streakArg,
                    bonusRoll |-> bonusRoll,
                    result |-> calculateTaskXP(task, StatsWithXP(xp), streakArg,
                                               now, bonusRoll, RewardLootRolls)]
        /\ UNCHANGED <<now, ledgerVars, storeVars>>

RewardNext == RewardTick \/ CalculateTaskXPCall

RewardSpec == Init /\ [][RewardNext]_vars

(***************************************************************************)
(* SuggestSpec: getSmartSuggestions called on a list of captured tasks     *)
(***************************************************************************)
SuggestInput(priority, estimatedMinutes, energyRequired, contexts, tags, dueDate) ==
    [priority |-> priority, estimatedMinutes |-> estimatedMinutes,
     energyRequired |-> energyRequired, contexts |-> contexts, tags |-> tags,
     dueDate |-> dueDate]

\* the inputs the tasks are created with at time t
SuggestTaskInputs(t) ==
    { SuggestInput(<<"critical">>, <<5>>, <<1>>, << <<"home">> >>,
                   << <<"creative">> >>, <<t - 6 * 3600>>),
      SuggestInput(<<"high">>, <<20>>, <<3>>, <<>>, <<>>, <<t + 18 * 3600>>),
      SuggestInput(<<>>, <<10>>, <<2>>, << <<"work">> >>,
                   << <<"writing">> >>, <<t + 48 * 3600>>),
      SuggestInput(<<"low">>, <<>>, <<4>>, << <<"computer">> >>, <<>>,
                   <<t + 100 * 3600>>),
      SuggestInput(<<"someday">>, <<40>>, <<5>>, << <<"phone", "errand">> >>,
                   <<>>, <<>>) }

\* a task is captured, and possibly completed at once; its id is its position
CaptureTask ==
    \E input \in SuggestTaskInputs(now), done \in BOOLEAN :
        /\ Len(tasks) < MaxSuggestTasks
        /\ tasks' = Append(tasks,
                IF done THEN completeTask(createTask(Len(tasks) + 1, input, now), now)
                ELSE createTask(Len(tasks) + 1, input, now))
        /\ call' = NoCall
        /\ UNCHANGED <<now, ledgerVars, stats, streaks, achievements, recentXPReward,
                       showCelebration, celebrationMessage, habits>>

Context(energyLevel, availableMinutes, location, mood, timeOfDay) ==
    [energyLevel |-> energyLevel, availableMinutes |-> availableMinutes,
     location |-> location, mood |-> mood, timeOfDay |-> timeOfDay]

\* the contexts getSmartSuggestions is called with
SuggestContexts ==
    { Context(<<3>>, <<30>>, <<>>, <<>>, "morning"),
      Context(<<>>, <<>>, <<"home">>, <<"tired">>, "afternoon"),
      Context(<<5>>, <<10>>, <<"work">>, <<"focused">>, "evening"),
      Context(<<1>>, <<15>>, <<"transit">>, <<"creative">>, "night"),
      Context(<<>>, <<0>>, <<"other">>, <<"anxious">>, "morning"),
      Context(<<2>>, <<>>, <<"errand">>, <<"motivated">>, "afternoon"),
      Context(<<4>>, <<5>>, <<>>, <<"scattered">>, "night") }

GetSmartSuggestionsCall ==
    \E context \in SuggestContexts, limit \in 0..MaxLimit :
        /\ call' = [op |-> "getSmartSuggestions", tasks |-> tasks,
                    context |-> context, limit |-> limit,
                    result |-> getSmartSuggestions(tasks, context, limit, now)]
        /\ UNCHANGED <<now, ledgerVars, storeVars>>

SuggestNext == CaptureTask \/ GetSmartSuggestionsCall

SuggestSpec == Init /\ [][SuggestNext]_vars

(***************************************************************************)
(* DaySpec: evaluateDay called on the tasks planned so far                 *)
(***************************************************************************)
\* what became of a task after createTask
TaskFates == {"pending", "completed", "skipped", "deferred"}

\* a task is created today and left pending, completed, skipped, or deferred
\* to tomorrow; its id is its position
PlanTask ==
    \E fate \in TaskFates :
        LET created == createTask(Len(tasks) + 1, CHOOSE input \in TaskInputs : TRUE, now)
        IN  /\ Len(tasks) < MaxDayTasks
            /\ tasks' = Append(tasks,
                    CASE fate = "pending" -> created
                      [] fate = "completed" -> completeTask(created, now)
                      [] fate = "skipped" -> skipTask(created)
                      [] fate = "deferred" -> deferTask(created, now + SecondsPerDay))
            /\ call' = NoCall
            /\ UNCHANGED <<now, ledgerVars, stats, streaks, achievements, recentXPReward,
                           showCelebration, celebrationMessage, habits>>

\* the minimumViableDay arguments: null, the first task, a task not in the list
MinimumViableDays ==
    { <<>>, <<[taskIds |-> <<1>>]>>, <<[taskIds |-> <<MaxDayTasks + 2>>]>> }

EvaluateDayCall ==
    \E minimumViableDay \in MinimumViableDays, date \in {now, now + SecondsPerDay} :
        /\ call' = [op |-> "evaluateDay", tasks |-> tasks,
                    minimumViableDay |-> minimumViableDay, date |-> date,
                    result |-> evaluateDay(tasks, minimumViableDay, date)]
        /\ UNCHANGED <<now, ledgerVars, storeVars>>

DayNext == PlanTask \/ EvaluateDayCall

DaySpec == Init /\ [][DayNext]_vars

(***************************************************************************)
(* AnalysisSpec: analyzeStreak called on a log of day ratings              *)
(***************************************************************************)
AnalysisTick ==
    /\ DayOf(now + SecondsPerDay) <= MaxRatingDay
    /\ now' = now + SecondsPerDay
    /\ call' = NoCall
    /\ UNCHANGED <<ledgerVars, storeVars>>

\* what a past day left in the log: no rating, a rating of a day with
\* completed tasks, or a rating of a zero day
DayMarks == {"none", "good", "zero"}

\* the log of a history, oldest rating first, rated at CreationTime's hour
RECURSIVE RatingLog(_, _)
RatingLog(history, day) ==
    IF day < 0 THEN <<>>
    ELSE IF history[day] = "none" THEN RatingLog(history, day - 1)
    ELSE Append(RatingLog(history, day - 1),
                [date |-> day * SecondsPerDay + CreationTime, type |-> history[day]])

AnalyzeStreakCall ==
    \E history \in [0..DayOf(now) -> DayMarks], shields \in 0..MaxShields :
        LET dayRatings == RatingLog(history, DayOf(now))
        IN  /\ call' = [op |-> "analyzeStreak", dayRatings |-> dayRatings,
                        streakShieldsAvailable |-> shields,
                        result |-> analyzeStreak(dayRatings, shields, now)]
            /\ UNCHANGED <<now, ledgerVars, storeVars>>

AnalysisNext == AnalysisTick \/ AnalyzeStreakCall

AnalysisSpec == Init /\ [][AnalysisNext]_vars

(***************************************************************************)
(* Claims about the streak ledger (StreakSpec)                             *)
(***************************************************************************)
IsUpdateStreak == call.op = "updateStreak"

\* calendar days between the argument's lastActivityDate and the day of the call
CallGap == DayOf(now) - DayOf(call.streak.lastActivityDate)

CallQualifies == call.tasksCompletedToday >= call.minimumForStreak

\* C1: a call d > 1 calendar days after lastActivityDate with at least d-1
\* shields keeps the streak: d-1 shields move from available to used, the count
\* grows by one, longestCount is the maximum of its old value and the new count,
\* lastActivityDate is the time of the call and nothing else (startedAt) changes.
C1_ShieldsCoverGap ==
    (IsUpdateStreak /\ CallGap > 1 /\ call.streak.shieldsAvailable >= CallGap - 1) =>
        streak = [call.streak EXCEPT
                    !.shieldsAvailable = call.streak.shieldsAvailable - (CallGap - 1),
                    !.shieldsUsed = call.streak.shieldsUsed + (CallGap - 1),
                    !.currentCount = call.streak.currentCount + 1,
                    !.longestCount = Max(call.streak.longestCount,
                                         call.streak.currentCount + 1),
                    !.lastActivityDate = now]

\* the scenario of the specification: count 5, one shield, last activity two
\* days ago, one task today
C1_Witness ==
    /\ IsUpdateStreak /\ CallGap = 2
    /\ call.streak.currentCount = 5 /\ call.streak.shieldsAvailable = 1
    /\ call.tasksCompletedToday = 1 /\ call.minimumForStreak = 1
    /\ streak.currentCount = 6 /\ streak.shieldsAvailable = 0
    /\ streak.shieldsUsed = call.streak.shieldsUsed + 1

\* C2: a call d > 1 calendar days after lastActivityDate with fewer than d-1
\* shields resets the streak: the count is 1 when today qualifies and 0 when
\* not, startedAt and lastActivityDate are the time of the call, and the
\* shields and longestCount are as before.
C2_GapBeyondShieldsResets ==
    (IsUpdateStreak /\ CallGap > 1 /\ call.streak.shieldsAvailable < CallGap - 1) =>
        streak = [call.streak EXCEPT
                    !.currentCount = IF CallQualifies THEN 1 ELSE 0,
                    !.startedAt = now,
                    !.lastActivityDate = now]

\* the scenario of the specification: count 5, no shield, a gap of 3 days,
\* today qualifies
C2_Witness ==
    /\ IsUpdateStreak /\ CallGap = 3
    /\ call.streak.currentCount = 5 /\ call.streak.shieldsAvailable = 0
    /\ CallQualifies
    /\ streak.currentCount = 1 /\ streak.startedAt = now
    /\ streak.startedAt # call.streak.startedAt

ShieldSum(s) == s.shieldsAvailable + s.shieldsUsed

\* C3: updateStreak leaves shieldsAvailable + shieldsUsed as it was, in every
\* branch; addStreakShield(count) raises the sum by count; shieldsAvailable is
\* never negative.
C3_ShieldConservation ==
    /\ IsUpdateStreak => ShieldSum(streak) = ShieldSum(call.streak)
    /\ call.op = "addStreakShield" => ShieldSum(streak) = ShieldSum(call.streak) + call.count
    /\ streak.shieldsAvailable >= 0

\* a call that consumed two shields at once
C3_Witness ==
    /\ IsUpdateStreak /\ CallGap = 3
    /\ call.streak.shieldsAvailable >= 2
    /\ streak.shieldsUsed = call.streak.shieldsUsed + 2
    /\ streak.shieldsAvailable = call.streak.shieldsAvailable - 2

\* whole calendar days between startedAt and the day of the call
DaysSinceStart == DayOf(now) - DayOf(streak.startedAt)

\* C5 as claimed: after every updateStreak call the count is at most the number
\* of whole calendar days between startedAt and the day of the call.
C5_CountWithinElapsedDays ==
    IsUpdateStreak => streak.currentCount <= DaysSinceStart

\* C5 as amended: after every updateStreak call the count is at most one more
\* than the number of whole calendar days between startedAt and the day of
\* the call (the day of a restart counts as the first day).
C5_CountWithinElapsedDaysPlusOne ==
    IsUpdateStreak => streak.currentCount <= DaysSinceStart + 1

\* a restart: the count is 1 on the day startedAt was set
C5_Witness ==
    /\ IsUpdateStreak /\ CallGap > 1
    /\ streak.startedAt = now /\ streak.currentCount = 1
    /\ call.streak.currentCount >= 2

\* C6: the count is never negative, a qualifying call exactly one calendar day
\* after lastActivityDate does not lower it, and a call that lowers it leaves
\* it at 0 or 1.
C6_CountOnlyDropsToRestart ==
    /\ streak.currentCount >= 0
    /\ (IsUpdateStreak /\ CallGap = 1 /\ CallQualifies) =>
            streak.currentCount >= call.streak.currentCount
    /\ (IsUpdateStreak /\ streak.currentCount < call.streak.currentCount) =>
            streak.currentCount \in {0, 1}

\* a call that lowered a count of at least 3
C6_Witness ==
    /\ IsUpdateStreak
    /\ call.streak.currentCount >= 3
    /\ streak.currentCount < call.streak.currentCount

\* C7: on one calendar day at most one updateStreak call changes currentCount,
\* longestCount, shieldsAvailable, shieldsUsed or startedAt; a call made after
\* it on that day changes nothing but lastActivityDate.
C7_OneMutationPerDay ==
    /\ mutationsToday <= 1
    /\ (IsUpdateStreak /\ DayOf(call.streak.lastActivityDate) = DayOf(now)) =>
            LedgerFields(streak) = LedgerFields(call.streak)

\* a later call of a day on which the streak was already reset: it only
\* refreshes lastActivityDate
C7_Witness ==
    /\ IsUpdateStreak /\ mutationsToday = 1
    /\ DayOf(call.streak.lastActivityDate) = DayOf(now)
    /\ call.streak.startedAt = call.streak.lastActivityDate
    /\ streak.lastActivityDate # call.streak.lastActivityDate
    /\ LedgerFields(streak) = LedgerFields(call.streak)

\* C14: getVisibleStreak returns the count up to 7 and 7 beyond it, while an
\* updateStreak call that extends the streak (the next day with a qualifying
\* count, or a gap covered by shields) adds one to the true count whatever its
\* size, longestCount following it.
C14_VisibleStreakIsCapped ==
    /\ call.op = "getVisibleStreak" =>
            call.result = IF call.streak.currentCount <= 7
                          THEN call.streak.currentCount ELSE 7
    /\ (IsUpdateStreak /\ \/ CallGap = 1 /\ CallQualifies
                          \/ CallGap > 1 /\ call.streak.shieldsAvailable >= CallGap - 1) =>
            /\ streak.currentCount = call.streak.currentCount + 1
            /\ streak.longestCount >= streak.currentCount

\* the visible value of a streak that an updateStreak call took past 7
C14_Witness ==
    /\ call.op = "getVisibleStreak"
    /\ call.streak.currentCount > 7 /\ call.streak.longestCount > 7
    /\ call.result = 7

\* C15: an updateStreak call on a streak whose lastActivityDate is on a
\* calendar day after today ends in an InvalidStateError and returns no streak.
C15_FutureActivityRejected ==
    (IsUpdateStreak /\ DayOf(call.streak.lastActivityDate) > DayOf(now)) =>
        call.outcome = "InvalidStateError"

\* C26: a call of updateStreak on a day that does not qualify
\* (tasksCompletedToday < minimumForStreak) returns a currentCount no greater
\* than the argument's and consumes no shield.
C26_CountGrowsOnlyOnQualifyingDay ==
    (IsUpdateStreak /\ ~CallQualifies) =>
        /\ streak.currentCount <= call.streak.currentCount
        /\ streak.shieldsAvailable = call.streak.shieldsAvailable
        /\ streak.shieldsUsed = call.streak.shieldsUsed

IsAddStreakShield == call.op = "addStreakShield"

\* C27: in every state of a ledger that starts with longestCount >=
\* currentCount >= 0, longestCount >= currentCount >= 0, and a call of
\* updateStreak or addStreakShield returns a longestCount no smaller than its
\* argument's.
C27_LongestBoundsCurrent ==
    /\ streak.longestCount >= streak.currentCount
    /\ streak.currentCount >= 0
    /\ (IsUpdateStreak \/ IsAddStreakShield) =>
            streak.longestCount >= call.streak.longestCount

(***************************************************************************)
(* Claims about the store (Spec, XPSpec)                                   *)
(***************************************************************************)
mainStreak == streaks[FindDaily(streaks)]

\* a task of the store was completed on calendar day d
CompletedOn(d) ==
    \E i \in DOMAIN tasks :
        /\ tasks[i].status = "completed"
        /\ tasks[i].completedAt # <<>>
        /\ DayOf(tasks[i].completedAt[1]) = d

\* C4: when a task was completed on each calendar day from the creation day
\* (day 0) to today, the daily streak's currentCount is the number of those
\* days.
C4_StreakCountsActiveDays ==
    (\A d \in 0..DayOf(now) : CompletedOn(d)) => mainStreak.currentCount = DayOf(now) + 1

\* C8: a task that is completed keeps its status, completedAt and actualMinutes
\* in every step, and totalTasksCompleted is credited only in a step that takes
\* a task from another status to completed.
C8_CompletedIsTerminal ==
    [][ /\ \A i \in DOMAIN tasks :
              tasks[i].status = "completed" =>
                  /\ tasks'[i].status = "completed"
                  /\ tasks'[i].completedAt = tasks[i].completedAt
                  /\ tasks'[i].actualMinutes = tasks[i].actualMinutes
        /\ stats'.totalTasksCompleted # stats.totalTasksCompleted =>
              \E i \in DOMAIN tasks :
                  tasks[i].status # "completed" /\ tasks'[i].status = "completed"
      ]_vars

\* C9: in every reachable state stats.level is the level the table gives for
\* stats.totalXP.
C9_LevelDerivedFromXP ==
    stats.level = getLevelFromXP(stats.totalXP).level

\* a toggleHabit step that undoes a completed habit
UndoStep ==
    \E i \in DOMAIN habits : habits[i].completedToday /\ ~habits'[i].completedToday

\* C10: totalXP, level, totalTasksCompleted and longestStreak do not decrease in
\* a step that is not the undo of a habit, and totalXP is never negative.
C10_StatsNeverDecrease ==
    [][ /\ ~UndoStep =>
              /\ stats'.totalXP >= stats.totalXP
              /\ stats'.level >= stats.level
              /\ stats'.totalTasksCompleted >= stats.totalTasksCompleted
              /\ stats'.longestStreak >= stats.longestStreak
        /\ stats'.totalXP >= 0
      ]_vars

\* C23: in every step the achievements list afterwards holds no two records of
\* one achievement id, every record it held is still there with the same
\* achievementId and unlockedAt, and celebrated changes only from false to
\* true, in a step that changes nothing but the achievements (the step of
\* celebrateAchievement).
C23_AchievementRecordsAreStable ==
    [][ /\ \A i, j \in DOMAIN achievements' :
              achievements'[i].achievementId = achievements'[j].achievementId => i = j
        /\ \A i \in DOMAIN achievements :
              /\ i \in DOMAIN achievements'
              /\ achievements'[i].achievementId = achievements[i].achievementId
              /\ achievements'[i].unlockedAt = achievements[i].unlockedAt
              /\ achievements'[i].celebrated # achievements[i].celebrated =>
                    /\ achievements'[i].celebrated
                    /\ UNCHANGED <<tasks, stats, streaks, recentXPReward>>
      ]_vars

\* an achievement unlocked by the first completion, celebrated, and still the
\* only record after a later completion
C23_Witness ==
    /\ Len(achievements) = 1
    /\ achievements[1].achievementId = "first_task" /\ achievements[1].celebrated
    /\ stats.totalTasksCompleted >= 2

\* C24: after every completeTaskAction (the only step that changes the
\* stats), each catalogue achievement whose condition holds on the resulting
\* stats has a record in the achievements list.
C24_EveryMetAchievementIsRecorded ==
    [][ stats' # stats =>
          \A i \in DOMAIN ACHIEVEMENTS :
              checkAchievementCondition(ACHIEVEMENTS[i], stats') =>
                  \E j \in DOMAIN achievements' :
                      achievements'[j].achievementId = ACHIEVEMENTS[i].id
      ]_vars

\* a step of completeTaskAction on a task of the store
CompletionStep == stats'.totalTasksCompleted = stats.totalTasksCompleted + 1

\* the loot drop of the reward the completion has stored, <<>> when none
StoredLootDrop == recentXPReward'[1].triggeredLootDrop

\* the XP of the achievements the step has unlocked
UnlockedXP ==
    SumXPReward(SelectSeq(ACHIEVEMENTS, LAMBDA a :
        /\ \E j \in DOMAIN achievements' : achievements'[j].achievementId = a.id
        /\ ~ \E j \in DOMAIN achievements : achievements[j].achievementId = a.id))

\* C25: when the reward of a completion carries a loot drop, the completion
\* applies it: a streak_shield of value v grants v shields to the daily streak
\* (shieldsAvailable + shieldsUsed rises by v), and an xp_bonus of value v adds
\* v to stats.totalXP on top of the reward's total and the achievement XP.
C25_LootDropIsApplied ==
    [][ (CompletionStep /\ StoredLootDrop # <<>>) =>
          /\ StoredLootDrop[1].type = "streak_shield" =>
                ShieldSum(streaks'[FindDaily(streaks')])
                    = ShieldSum(mainStreak) + StoredLootDrop[1].value
          /\ StoredLootDrop[1].type = "xp_bonus" =>
                stats'.totalXP = stats.totalXP + recentXPReward'[1].total
                                    + UnlockedXP + StoredLootDrop[1].value
      ]_vars

\* C28: in every reachable state of the store stats.totalTasksCompleted is the
\* number of tasks whose status is completed.
C28_CompletedCountMatchesTasks ==
    stats.totalTasksCompleted =
        Cardinality({i \in DOMAIN tasks : tasks[i].status = "completed"})

(***************************************************************************)
(* Claims about calculateTaskXP (RewardSpec)                               *)
(***************************************************************************)
IsCalculateTaskXP == call.op = "calculateTaskXP"

\* the entries of a bonus list whose reason is r
EntriesOf(bonuses, r) == SelectSeq(bonuses, LAMBDA b : b.reason = r)

\* the sum of the amounts of a bonus list, entry by entry from the end
RECURSIVE AmountsUpTo(_, _)
AmountsUpTo(bonuses, n) ==
    IF n = 0 THEN 0 ELSE bonuses[n].amount + AmountsUpTo(bonuses, n - 1)

\* C11: every result has base = task.baseXP and total = base + the sum of the
\* bonus amounts; every bonus entry has a positive amount, and there is no
\* streak entry for a null streak or a count of 0, no lucky entry without a
\* random win and no critical entry for another priority.
C11_TotalIsBasePlusBonuses ==
    IsCalculateTaskXP =>
        LET r == call.result
        IN  /\ r.base = call.task.baseXP
            /\ r.total = r.base + AmountsUpTo(r.bonuses, Len(r.bonuses))
            /\ \A i \in DOMAIN r.bonuses : r.bonuses[i].amount > 0
            /\ (call.streakArg = <<>> \/ call.streakArg[1].currentCount = 0) =>
                    EntriesOf(r.bonuses, "day streak!") = <<>>
            /\ call.bonusRoll >= 300 => EntriesOf(r.bonuses, "Lucky bonus!") = <<>>
            /\ call.task.priority # "critical" =>
                    EntriesOf(r.bonuses, "Critical task done!") = <<>>

\* a medium task, no streak, no random win, at noon: the result is the bare base
C11_Witness ==
    /\ IsCalculateTaskXP
    /\ call.task.priority = "medium" /\ call.streakArg = <<>> /\ call.bonusRoll >= 300
    /\ call.result.bonuses = <<>> /\ call.result.total = call.task.baseXP

\* the level of x: the number of thresholds that are at most x
LevelThresholds == {0, 100, 250, 500, 1000, 2000, 4000, 8000, 16000, 32000}
LevelOf(x) == Cardinality({th \in LevelThresholds : th <= x})

\* C12: levelUp is {from, to} exactly when the level of totalXP + total is
\* above the level of totalXP, from and to being those two levels; otherwise
\* it is absent.
C12_LevelUpIffLevelRises ==
    IsCalculateTaskXP =>
        LET from == LevelOf(call.userStats.totalXP)
            to == LevelOf(call.userStats.totalXP + call.result.total)
        IN  IF to > from
            THEN call.result.levelUp = << [from |-> from, to |-> to] >>
            ELSE call.result.levelUp = <<>>

\* a reward that carries 100 XP, exactly a threshold, past the next one
C12_Witness ==
    /\ IsCalculateTaskXP
    /\ call.userStats.totalXP = 100
    /\ call.result.levelUp = << [from |-> 2, to |-> 3] >>

\* C13: bonuses holds one speed entry of amount 5 when actualMinutes is defined
\* and below estimatedMinutes (0 included), and no speed entry otherwise.
C13_SpeedBonusWhenFaster ==
    IsCalculateTaskXP =>
        LET speed == EntriesOf(call.result.bonuses, "Speed bonus!")
            faster == /\ call.task.actualMinutes # <<>>
                      /\ call.task.actualMinutes[1] < call.task.estimatedMinutes
        IN  IF faster
            THEN speed = << [reason |-> "Speed bonus!", amount |-> 5] >>
            ELSE speed = <<>>

(***************************************************************************)
(* Claims about getSmartSuggestions (SuggestSpec)                          *)
(***************************************************************************)
IsSuggest == call.op = "getSmartSuggestions"

\* the task a suggestion refers to: ids are positions in the list
SuggestedTask(e) == call.tasks[e.taskId]

InRange(x, cap) == 0 <= x /\ x <= cap

\* C16: the score of every suggestion is the sum of the eight contributions,
\* each between 0 and its cap (40, 25, 20, 15, 15, 10, 30, 10), so it is not
\* negative; a high-priority task with energy 3 and 20 minutes, due in 18
\* hours, scores at least 100 in a context with energy 3 and 30 minutes.
C16_ScoreIsSumOfCappedFactors ==
    IsSuggest => \A i \in DOMAIN call.result :
        LET e == call.result[i]
            task == SuggestedTask(e)
            c == call.context
        IN  /\ e.score = priorityScore(task.priority) + energyMatchScore(task, c)
                          + timeFitScore(task, c) + locationScore(task, c)
                          + moodScore(task, c) + timeOfDayScore(task, c)
                          + dueDateUrgency(task, now) + quickWinScore(task)
            /\ InRange(priorityScore(task.priority), 40)
            /\ InRange(energyMatchScore(task, c), 25)
            /\ InRange(timeFitScore(task, c), 20)
            /\ InRange(locationScore(task, c), 15)
            /\ InRange(moodScore(task, c), 15)
            /\ InRange(timeOfDayScore(task, c), 10)
            /\ InRange(dueDateUrgency(task, now), 30)
            /\ InRange(quickWinScore(task), 10)
            /\ e.score >= 0
            /\ ( /\ task.priority = "high" /\ task.energyRequired = 3
                 /\ task.estimatedMinutes = 20 /\ task.dueDate = <<now + 18 * 3600>>
                 /\ c.energyLevel = <<3>> /\ c.availableMinutes = <<30>> ) =>
                    e.score >= 100

\* the scenario of the specification, and a critical task at the priority cap
C16_Witness ==
    /\ IsSuggest /\ Len(call.result) = 2
    /\ call.context.energyLevel = <<3>> /\ call.context.availableMinutes = <<30>>
    /\ \E i \in DOMAIN call.result :
            /\ SuggestedTask(call.result[i]).priority = "high"
            /\ call.result[i].score = 110
    /\ \E i \in DOMAIN call.result :
            SuggestedTask(call.result[i]).priority = "critical"

\* the seven contributions other than the due-date urgency
ScoreWithoutDue(task, c) ==
    priorityScore(task.priority) + energyMatchScore(task, c) + timeFitScore(task, c)
    + locationScore(task, c) + moodScore(task, c) + timeOfDayScore(task, c)
    + quickWinScore(task)

\* C17: the due date adds 30 to the score when the task is overdue, 25 when it
\* is due in less than 24 hours, 15 in less than 72 hours, 5 in less than 168
\* hours and 0 when it is further away or absent.
C17_DueDateUrgencyTiers ==
    IsSuggest => \A i \in DOMAIN call.result :
        LET e == call.result[i]
            task == SuggestedTask(e)
            secondsUntil == task.dueDate[1] - now
        IN  e.score - ScoreWithoutDue(task, call.context) =
                IF task.dueDate = <<>> THEN 0
                ELSE IF secondsUntil < 0 THEN 30
                ELSE IF secondsUntil < 24 * 3600 THEN 25
                ELSE IF secondsUntil < 72 * 3600 THEN 15
                ELSE IF secondsUntil < 168 * 3600 THEN 5
                ELSE 0

\* the seven contributions other than the mood match
ScoreWithoutMood(task, c) ==
    priorityScore(task.priority) + energyMatchScore(task, c) + timeFitScore(task, c)
    + locationScore(task, c) + timeOfDayScore(task, c)
    + dueDateUrgency(task, now) + quickWinScore(task)

\* the predicates of the specification's mood table
MoodPredicate(task, mood) ==
    CASE mood = "focused"   -> task.estimatedMinutes >= 25 \/ task.energyRequired >= 4
      [] mood = "scattered" -> task.estimatedMinutes <= 10
      [] mood = "creative"  -> HasTag(task, {"creative", "brainstorm", "writing", "design"})
      [] mood = "tired"     -> task.energyRequired = 1 /\ task.estimatedMinutes <= 10
      [] mood = "anxious"   -> task.estimatedMinutes <= 15 /\ ~HasTag(task, {"creative"})
      [] mood = "motivated" -> task.priority \in {"critical", "high"}

\* C18: the mood adds 15 to the score exactly when the task satisfies the
\* predicate of the context's mood (tired: energyRequired = 1 and at most 10
\* minutes), and 0 otherwise.
C18_MoodMatchPredicates ==
    IsSuggest => \A i \in DOMAIN call.result :
        LET e == call.result[i]
            task == SuggestedTask(e)
            c == call.context
        IN  e.score - ScoreWithoutMood(task, c) =
                IF c.mood # <<>> /\ MoodPredicate(task, c.mood[1]) THEN 15 ELSE 0

\* C19: the result has at most limit entries, each for a pending task, in
\* non-increasing score order, entries of equal score in the order of the
\* input list, and no pending task left out scores above a returned entry.
C19_SortedStableTruncated ==
    IsSuggest =>
        LET r == call.result
            returned == {r[i].taskId : i \in DOMAIN r}
        IN  /\ Len(r) <= call.limit
            /\ \A i \in DOMAIN r : SuggestedTask(r[i]).status = "pending"
            /\ \A i, j \in DOMAIN r :
                    i < j => /\ r[i].score >= r[j].score
                             /\ r[i].score = r[j].score => r[i].taskId < r[j].taskId
            /\ \A k \in DOMAIN call.tasks :
                    (call.tasks[k].status = "pending" /\ k \notin returned) =>
                        \A i \in DOMAIN r :
                            suggestionScore(call.tasks[k], call.context, now) <= r[i].score

\* a list whose second task outscores the first, cut to one entry
C19_Witness ==
    /\ IsSuggest /\ call.limit = 1 /\ Len(call.result) = 1
    /\ Len(call.tasks) = 2
    /\ call.tasks[1].status = "pending" /\ call.tasks[2].status = "pending"
    /\ call.result[1].taskId = 2
    /\ call.result[1].score > suggestionScore(call.tasks[1], call.context, now)

(***************************************************************************)
(* Claims about evaluateDay (DaySpec)                                      *)
(***************************************************************************)
IsEvaluateDay == call.op = "evaluateDay"

\* the tasks of the call that belong to the evaluated day
OnEvaluatedDay(task) ==
    DayOf(IF task.scheduledFor # <<>> THEN task.scheduledFor[1] ELSE task.createdAt)
        = DayOf(call.date)

CompletedOnDay ==
    Cardinality({k \in DOMAIN call.tasks :
        OnEvaluatedDay(call.tasks[k]) /\ call.tasks[k].status = "completed"})

PlannedOnDay ==
    Cardinality({k \in DOMAIN call.tasks :
        OnEvaluatedDay(call.tasks[k]) /\ call.tasks[k].status # "skipped"})

\* C20: the type of a day is the first that matches of: perfect when the rate
\* is at least 0.9 and at least 3 tasks were planned, good when the rate is at
\* least 0.7, okay when it is at least 0.4 or 2 tasks were completed,
\* minimum_viable when the MVD was achieved or 1 task was completed, and zero;
\* tasksPlanned counts the day's tasks that are not skipped, and the rate is
\* tasksCompleted / tasksPlanned, 0 when nothing was planned.
C20_DayTypeByFirstMatch ==
    IsEvaluateDay =>
        LET r == call.result
            c == CompletedOnDay
            p == PlannedOnDay
        IN  /\ r.tasksCompleted = c /\ r.tasksPlanned = p
            /\ r.completionRate.num * p = c * r.completionRate.den
            /\ p = 0 => r.completionRate.num = 0
            /\ r.type =
                  IF p > 0 /\ 10 * c >= 9 * p /\ p >= 3 THEN "perfect"
                  ELSE IF p > 0 /\ 10 * c >= 7 * p THEN "good"
                  ELSE IF (p > 0 /\ 10 * c >= 4 * p) \/ c >= 2 THEN "okay"
                  ELSE IF r.mvdAchieved \/ c >= 1 THEN "minimum_viable"
                  ELSE "zero"

\* a day whose tasks were all skipped or moved away: nothing planned, zero
C20_Witness ==
    /\ IsEvaluateDay /\ call.minimumViableDay = <<>>
    /\ Len(call.tasks) >= 2
    /\ call.result.tasksPlanned = 0 /\ call.result.tasksCompleted = 0
    /\ call.result.type = "zero"

\* C30: the type of a day is zero exactly when none of the day's tasks is
\* completed; mvdAchieved holds only when at least one is completed; the type
\* is the same for every minimum-viable-day argument; and minimum_viable is
\* returned only when exactly one task is completed and the completion rate
\* is below 0.4.
C30_ZeroIffNothingCompleted ==
    IsEvaluateDay =>
        LET r == call.result
        IN  /\ r.type = "zero" <=> CompletedOnDay = 0
            /\ r.mvdAchieved => CompletedOnDay >= 1
            /\ \A minimumViableDay \in MinimumViableDays :
                  evaluateDay(call.tasks, minimumViableDay, call.date).type = r.type
            /\ r.type = "minimum_viable" =>
                  /\ CompletedOnDay = 1
                  /\ 10 * r.completionRate.num < 4 * r.completionRate.den

\* one task of three planned is completed and it is not the task the
\* minimum viable day lists: a minimum_viable day without the MVD
C30_Witness ==
    /\ IsEvaluateDay
    /\ call.minimumViableDay # <<>> /\ ~call.result.mvdAchieved
    /\ call.result.tasksCompleted = 1 /\ call.result.tasksPlanned >= 3
    /\ call.result.type = "minimum_viable"

(***************************************************************************)
(* Claims about analyzeStreak (AnalysisSpec)                               *)
(***************************************************************************)
IsAnalyzeStreak == call.op = "analyzeStreak"

\* the calendar day of the most recent rating of the call
LastRatedDay ==
    CHOOSE d \in {DayOf(call.dayRatings[i].date) : i \in DOMAIN call.dayRatings} :
        \A i \in DOMAIN call.dayRatings : DayOf(call.dayRatings[i].date) <= d

\* days between the most recent rating and the day of the call; 0 for no rating
RatingGap == IF call.dayRatings = <<>> THEN 0 ELSE DayOf(now) - LastRatedDay

\* C21: canRecover is true exactly when the gap since the most recent rating
\* is above 1 and the shields cover gap - 1 days, for every log, empty or not.
C21_CanRecoverIffShieldsCoverGap ==
    IsAnalyzeStreak =>
        (call.result.canRecover <=>
            (RatingGap > 1 /\ call.streakShieldsAvailable >= RatingGap - 1))

\* the ratings of the call, most recent first
RatingsNewestFirst == sortByDate(call.dayRatings)

\* the length of the unbroken run at the head of the ratings: entry i belongs to
\* it when every entry up to i is of a non-zero type and lies at most one day
\* before the entry ahead of it
UnbrokenRun ==
    LET r == RatingsNewestFirst
    IN  Cardinality({i \in DOMAIN r :
            \A j \in 1..i :
                /\ r[j].type # "zero"
                /\ j > 1 => DayOf(r[j - 1].date) - DayOf(r[j].date) <= 1})

\* C22: currentStreak is the number of consecutive non-zero rated days at the
\* head of the ratings, most recent first, the run ending at a zero day or at
\* a gap of more than one day between rated days; it is 0 when the streak is
\* broken and cannot be recovered.
C22_StreakIsUnbrokenRun ==
    (IsAnalyzeStreak /\ call.dayRatings # <<>>) =>
        call.result.currentStreak =
            IF call.result.isStreakBroken /\ ~call.result.canRecover
            THEN 0 ELSE UnbrokenRun

\* updateStreak, on a streak of count 2 last active on the day of the most
\* recent rating and holding the call's shields, takes the shield branch
TakesShieldBranch ==
    \A tasksCompletedToday \in 0..1 :
        LET before == [InitialStreak(LastRatedDay * SecondsPerDay + CreationTime) EXCEPT
                          !.currentCount = 2, !.longestCount = 2,
                          !.shieldsAvailable = call.streakShieldsAvailable]
            after == updateStreak(before, tasksCompletedToday, 1, now)
        IN  /\ after.currentCount = before.currentCount + 1
            /\ after.shieldsUsed = before.shieldsUsed + (RatingGap - 1)
            /\ after.shieldsAvailable = before.shieldsAvailable - (RatingGap - 1)

\* C29 as claimed: for a gap above 1, analyzeStreak reports canRecover with a
\* non-zero currentStreak exactly when updateStreak takes the shield branch.
C29_RecoverableIffShieldBranch ==
    (IsAnalyzeStreak /\ RatingGap > 1) =>
        ((call.result.canRecover /\ call.result.currentStreak > 0) <=> TakesShieldBranch)

\* C29 as amended: for a gap above 1, analyzeStreak reports canRecover exactly
\* when updateStreak takes the shield branch; currentStreak is non-zero in
\* exactly that case when the most recent rating is of a non-zero type, and
\* is 0 when it is of type zero.
C29_CanRecoverIffShieldBranch ==
    (IsAnalyzeStreak /\ RatingGap > 1) =>
        /\ call.result.canRecover <=> TakesShieldBranch
        /\ IF RatingsNewestFirst[1].type # "zero"
           THEN call.result.currentStreak > 0 <=> TakesShieldBranch
           ELSE call.result.currentStreak = 0

\* a gap of 3 days covered by 2 shields, and the streak kept
C29_Witness ==
    /\ IsAnalyzeStreak /\ RatingGap = 3
    /\ call.streakShieldsAvailable = 2
    /\ call.result.canRecover /\ call.result.currentStreak > 0
    /\ TakesShieldBranch

====
